---- MODULE Spec2Model ----
(***************************************************************************)
(* Books API (Flask + SQLAlchemy ORM over PostgreSQL).                     *)
(*                                                                         *)
(* The model covers the request validation of books/routes.py, the six     *)
(* route handlers, the repository functions of books/repository.py split   *)
(* at their store round trips (session.get, session.commit,                *)
(* session.refresh), the books table of books/models.py with its column    *)
(* constraints, and the error handlers of app.py.                          *)
(***************************************************************************)
EXTENDS Integers, Sequences, FiniteSets, TLC

---------------------------------------------------------------------------
(* Bounds of the model.                                                    *)

\* Largest value the id sequence hands out: no Create is accepted beyond it.
MaxId == 2

\* Number of requests the HTTP layer may have in flight at once (SpecConc).
NProc == 2

\* Number of requests SpecConc admits in one behaviour.
MaxAdmitted == 3

\* Largest number of /health connections left open at once (SpecHealth).
MaxConns == 2

---------------------------------------------------------------------------
(* Column widths of the books table.                                       *)

TitleMaxLen == 255
AuthorMaxLen == 255
IsbnMaxLen == 32
\* Integer columns are PostgreSQL int4.
Int4Max == 2147483647

---------------------------------------------------------------------------
(* JSON values as Python sees them after request.get_json: the Python type *)
(* name, a payload that tells two values of a type apart, and the length   *)
(* of a string (for an int past the int4 range, its number of digits).     *)

JStr(k, n) == [ty |-> "str", v |-> k, len |-> n]
JInt(n) == [ty |-> "int", v |-> n, len |-> 0]
\* A Python int of `digits` decimal digits, more than int4 can hold (Python
\* ints are unbounded); k tells two of them apart.
JBigInt(k, digits) == [ty |-> "int", v |-> k, len |-> digits]
JBool(b) == [ty |-> "bool", v |-> b, len |-> 0]
JFloat(k) == [ty |-> "float", v |-> k, len |-> 0]
JNull == [ty |-> "NoneType", v |-> 0, len |-> 0]

\* isinstance(x, int): bool is a subclass of int in Python.
isinstance_int(x) == x.ty \in {"int", "bool"}

\* isinstance(x, str)
isinstance_str(x) == x.ty = "str"

\* a == b in Python: int and bool compare by number.
PyEq(a, b) ==
    IF a.ty \in {"int", "bool"} /\ b.ty \in {"int", "bool"}
    THEN a.v = b.v /\ a.len = b.len
    ELSE a = b

\* A dict with no keys.
EmptyDict == [k \in {} |-> JNull]

ALLOWED_FIELDS == {"title", "author", "year", "isbn"}

STRING_FIELDS == {"title", "author", "isbn"}

---------------------------------------------------------------------------
(* books/routes.py: request checks.  Each returns the HTTP status it       *)
(* aborts with, or 0 when it returns normally.                             *)

\* Mutant: the body is looked at before the content type.
_require_json_object_BodyFirst(is_json, is_dict) ==
    IF ~is_dict THEN 400
    ELSE IF ~is_json THEN 415
    ELSE 0

\* abort(415) unless the content type is JSON, abort(400) unless the body
\* decodes to a dict.
_require_json_object(is_json, is_dict) ==
    IF ~is_json THEN 415
    ELSE IF ~is_dict THEN 400
    ELSE 0

\* Mutant: _validate_fields without its check for unknown keys.
_validate_fields_abort_NoUnknown(data, required) ==
    LET missing == ALLOWED_FIELDS \ DOMAIN data
    IN  IF required /\ missing # {} THEN "Missing required field(s)"
        ELSE IF "year" \in DOMAIN data /\ ~isinstance_int(data["year"])
            THEN "Field 'year' must be an integer"
        ELSE IF \E s \in STRING_FIELDS :
                    s \in DOMAIN data /\ ~isinstance_str(data[s])
            THEN "Field must be a string"
        ELSE ""

\* The abort description of _validate_fields, "" when it returns data.
_validate_fields_abort(data, required) ==
    LET unknown == DOMAIN data \ ALLOWED_FIELDS
        missing == ALLOWED_FIELDS \ DOMAIN data
    IN  IF unknown # {} THEN "Unknown field(s)"
        ELSE IF required /\ missing # {} THEN "Missing required field(s)"
        ELSE IF "year" \in DOMAIN data /\ ~isinstance_int(data["year"])
            THEN "Field 'year' must be an integer"
        ELSE IF \E s \in STRING_FIELDS :
                    s \in DOMAIN data /\ ~isinstance_str(data[s])
            THEN "Field must be a string"
        ELSE ""

_validate_fields(data, required) ==
    IF _validate_fields_abort(data, required) # "" THEN 400 ELSE 0

---------------------------------------------------------------------------
(* books/models.py: the books table.  A row holds the mapped columns; the  *)
(* table is a function from the ids present to their rows.                 *)

\* One row of books; status takes its server default.
Book(id, vals) ==
    [id |-> id, title |-> vals["title"], author |-> vals["author"],
     year |-> vals["year"], isbn |-> vals["isbn"], status |-> "active"]

\* The four writable columns of a row, as a dict.
ColumnValues(row) ==
    [k \in ALLOWED_FIELDS |->
        CASE k = "title" -> row.title
          [] k = "author" -> row.author
          [] k = "year" -> row.year
          [] k = "isbn" -> row.isbn]

\* Whether the store accepts value v for column k: an Integer column takes an
\* int4 and no boolean, a String(n) column takes a string of at most n
\* characters; every column is NOT NULL.
ColumnOk(k, v) ==
    CASE k = "year" -> /\ v.ty = "int"
                       /\ v.len = 0 /\ v.v <= Int4Max /\ v.v >= -Int4Max - 1
      [] k = "title" -> v.ty = "str" /\ v.len <= TitleMaxLen
      [] k = "author" -> v.ty = "str" /\ v.len <= AuthorMaxLen
      [] k = "isbn" -> v.ty = "str" /\ v.len <= IsbnMaxLen

\* Mutant: the isbn column without unique=True.
UniqueViolation_Off(t, id, isbn) == FALSE

\* unique=True on isbn: some row other than id already holds this isbn.
UniqueViolation(t, id, isbn) ==
    \E j \in DOMAIN t : j # id /\ t[j].isbn = isbn

---------------------------------------------------------------------------
(* The statements the ORM session sends, against table t.  Each error      *)
(* operator gives the exception the statement raises, "" when it succeeds. *)

\* session.get(Book, book_id): the row as a one-element sequence, <<>> for None.
session_get(t, id) == IF id \in DOMAIN t THEN <<t[id]>> ELSE <<>>

\* INSERT INTO books (title, author, year, isbn) VALUES (...)
InsertError(t, vals) ==
    IF \E k \in ALLOWED_FIELDS : ~ColumnOk(k, vals[k]) THEN "DataError"
    ELSE IF UniqueViolation(t, 0, vals["isbn"]) THEN "IntegrityError"
    ELSE ""

InsertRow(t, id, vals) ==
    [j \in DOMAIN t \cup {id} |-> IF j = id THEN Book(id, vals) ELSE t[j]]

\* Mutant: the id computed as the largest id present plus one.
NextVal_MaxPlusOne(t, seq) ==
    IF DOMAIN t = {} THEN 1
    ELSE (CHOOSE m \in DOMAIN t : \A j \in DOMAIN t : j <= m) + 1

\* autoincrement: the id an INSERT gives the row is the sequence's next value.
NextVal(t, seq) == seq

\* The attributes whose assigned value differs from the value loaded by
\* session.get: the unit of work puts only these in the UPDATE.
ChangedAttrs(book, vals) ==
    {k \in DOMAIN vals : ~PyEq(vals[k], ColumnValues(book)[k])}

\* UPDATE books SET <changed> WHERE id = book.id; nothing is sent when no
\* attribute changed.  A row no longer there matches 0 rows.
UpdateError(t, book, vals) ==
    LET ch == ChangedAttrs(book, vals)
    IN  IF ch = {} THEN ""
        ELSE IF \E k \in ch : ~ColumnOk(k, vals[k]) THEN "DataError"
        ELSE IF book.id \notin DOMAIN t THEN "StaleDataError"
        ELSE IF "isbn" \in ch /\ UniqueViolation(t, book.id, vals["isbn"])
            THEN "IntegrityError"
        ELSE ""

\* Mutant: the UPDATE without its WHERE clause writes every row.
UpdateRow_AllRows(t, book, vals) ==
    LET ch == ChangedAttrs(book, vals)
    IN  [j \in DOMAIN t |->
            Book(j, [k \in ALLOWED_FIELDS |->
                        IF k \in ch THEN vals[k] ELSE ColumnValues(t[j])[k]])]

UpdateRow(t, book, vals) ==
    LET ch == ChangedAttrs(book, vals)
        new == [k \in ALLOWED_FIELDS |->
                   IF k \in ch THEN vals[k] ELSE ColumnValues(t[book.id])[k]]
    IN  IF ch = {} THEN t
        ELSE [t EXCEPT ![book.id] = Book(book.id, new)]

\* Mutant: the DELETE is never flushed.
DeleteRow_Keeps(t, book) == t

\* DELETE FROM books WHERE id = book.id; 0 rows matched is only a warning.
DeleteRow(t, book) == [j \in DOMAIN t \ {book.id} |-> t[j]]

\* session.refresh(book): SELECT by primary key; no row raises.
RefreshError(t, id) == IF id \in DOMAIN t THEN "" ELSE "InvalidRequestError"

\* Mutant: the dict with title and author taken from each other's column.
_book_to_dict_Swapped(book) ==
    [id |-> book.id, title |-> book.author, author |-> book.title,
     year |-> book.year, isbn |-> book.isbn]

\* The dict a repository function returns for a row.
_book_to_dict(book) ==
    [id |-> book.id, title |-> book.title, author |-> book.author,
     year |-> book.year, isbn |-> book.isbn]

\* select(Book).order_by(Book.id), from id lo upwards.
RECURSIVE OrderById(_, _)
OrderById(t, lo) ==
    IF \A j \in DOMAIN t : j < lo THEN <<>>
    ELSE IF lo \in DOMAIN t THEN <<t[lo]>> \o OrderById(t, lo + 1)
    ELSE OrderById(t, lo + 1)

RECURSIVE MapBookToDict(_)
MapBookToDict(books) ==
    IF books = <<>> THEN <<>>
    ELSE <<_book_to_dict(Head(books))>> \o MapBookToDict(Tail(books))

---------------------------------------------------------------------------
(* State.                                                                  *)

VARIABLES
    table,      \* the books table: id -> row
    nextId,     \* next value of the id sequence (autoincrement)
    req,        \* per worker: the request it is handling and how far it is
    everIds,    \* history: every id a row has ever had
    deleted,    \* history: ids whose DELETE has answered 204
    vcall,      \* the last direct call of _validate_fields (SpecValidate)
    admitted,   \* history: number of requests admitted so far (SpecConc)
    conns       \* psycopg2 connections of answered /health probes still open

vars == <<table, nextId, req, everIds, deleted, vcall, admitted, conns>>

Procs == 1 .. NProc

Ids == 1 .. MaxId

EmptyTable == [j \in {} |-> Book(0, [k \in ALLOWED_FIELDS |-> JNull])]

\* A worker with no request.  session tells whether the request holds an ORM
\* session open (with SessionLocal() as session); probe is how the store
\* probe of a /health request went.  pre and afterDel are history: the table when
\* the request arrived, and whether a DELETE of its id had answered 204 by
\* then; prev is history too: the answer to the same read sent just before,
\* <<>> when the request is not such a repetition.
IdleReq ==
    [pc |-> "idle", method |-> "", id |-> 0, is_json |-> FALSE,
     is_dict |-> FALSE, data |-> EmptyDict, repo |-> "", book |-> <<>>,
     status |-> 0, body |-> <<>>, err |-> "", pre |-> EmptyTable,
     afterDel |-> FALSE, prev |-> <<>>, session |-> FALSE, probe |-> ""]

NoCall == [called |-> FALSE, data |-> EmptyDict, required |-> FALSE, code |-> 0]

Init ==
    /\ table = EmptyTable
    /\ nextId = 1
    /\ req = [p \in Procs |-> IdleReq]
    /\ everIds = {}
    /\ deleted = {}
    /\ vcall = NoCall
    /\ admitted = 0
    /\ conns = 0

\* The request as it arrives at a route.
NewReq(method, id, is_json, is_dict, data) ==
    [IdleReq EXCEPT !.pc = "route", !.method = method, !.id = id,
                    !.is_json = is_json, !.is_dict = is_dict, !.data = data,
                    !.pre = table, !.afterDel = id \in deleted]

\* abort(code): handle_error answers with err.code.  An abort after a
\* repository call comes after the with block has closed the session.
Abort(r, code) == [r EXCEPT !.pc = "done", !.status = code, !.session = FALSE]

\* An exception leaves the repository function: the session is closed, its
\* transaction rolled back, and handle_internal_error answers 500.
Raise(r, e) ==
    [r EXCEPT !.pc = "done", !.status = 500, !.err = e, !.book = <<>>,
              !.session = FALSE]

\* jsonify(...) with a status.
Answer(r, code, body) ==
    [r EXCEPT !.pc = "done", !.status = code, !.body = body, !.book = <<>>,
              !.session = FALSE]

\* The route handler calls repository function f, which opens its session.
Call(r, f, pc) == [r EXCEPT !.pc = pc, !.repo = f, !.session = TRUE]

\* Creates past validation that have not yet drawn their id.
PendingCreates == {q \in Procs : req[q].repo = "create_book" /\ req[q].pc = "commit"}

---------------------------------------------------------------------------
(* books/routes.py: the route handlers, up to their repository call.       *)
(* Validation is local to the worker, so it is one step with the arrival.  *)

routes_list_books(p) ==
    /\ req[p].pc = "idle"
    /\ req' = [req EXCEPT ![p] =
                  Call(NewReq("LIST", 0, FALSE, FALSE, EmptyDict), "list_books", "select")]
    /\ UNCHANGED <<table, nextId, everIds, deleted, vcall, conns>>

routes_get_book(p, book_id) ==
    /\ req[p].pc = "idle"
    /\ req' = [req EXCEPT ![p] =
                  Call(NewReq("GET", book_id, FALSE, FALSE, EmptyDict), "get_book", "get")]
    /\ UNCHANGED <<table, nextId, everIds, deleted, vcall, conns>>

routes_create_book(p, is_json, is_dict, data) ==
    LET r == NewReq("POST", 0, is_json, is_dict, data)
        c1 == _require_json_object(is_json, is_dict)
        c2 == _validate_fields(data, TRUE)
    IN  /\ req[p].pc = "idle"
        /\ (c1 = 0 /\ c2 = 0) => nextId + Cardinality(PendingCreates) <= MaxId
        /\ req' = [req EXCEPT ![p] =
                      IF c1 # 0 THEN Abort(r, c1)
                      ELSE IF c2 # 0 THEN Abort(r, c2)
                      ELSE Call(r, "create_book", "commit")]
        /\ UNCHANGED <<table, nextId, everIds, deleted, vcall, conns>>

routes_replace_book(p, book_id, is_json, is_dict, data) ==
    LET r == NewReq("PUT", book_id, is_json, is_dict, data)
        c1 == _require_json_object(is_json, is_dict)
        c2 == _validate_fields(data, TRUE)
    IN  /\ req[p].pc = "idle"
        /\ req' = [req EXCEPT ![p] =
                      IF c1 # 0 THEN Abort(r, c1)
                      ELSE IF c2 # 0 THEN Abort(r, c2)
                      ELSE Call(r, "replace_book", "get")]
        /\ UNCHANGED <<table, nextId, everIds, deleted, vcall, conns>>

\* Mutant: the route without its own check for an empty payload.
routes_update_book_NoEmptyCheck(p, book_id, is_json, is_dict, data) ==
    LET r == NewReq("PATCH", book_id, is_json, is_dict, data)
        c1 == _require_json_object(is_json, is_dict)
        c2 == _validate_fields(data, FALSE)
    IN  /\ req[p].pc = "idle"
        /\ req' = [req EXCEPT ![p] =
                      IF c1 # 0 THEN Abort(r, c1)
                      ELSE IF c2 # 0 THEN Abort(r, c2)
                      ELSE Call(r, "update_book", "get")]
        /\ UNCHANGED <<table, nextId, everIds, deleted, vcall, conns>>

routes_update_book(p, book_id, is_json, is_dict, data) ==
    LET r == NewReq("PATCH", book_id, is_json, is_dict, data)
        c1 == _require_json_object(is_json, is_dict)
        c2 == _validate_fields(data, FALSE)
    IN  /\ req[p].pc = "idle"
        /\ req' = [req EXCEPT ![p] =
                      IF c1 # 0 THEN Abort(r, c1)
                      ELSE IF c2 # 0 THEN Abort(r, c2)
                      ELSE IF DOMAIN data = {} THEN Abort(r, 400)
                      ELSE Call(r, "update_book", "get")]
        /\ UNCHANGED <<table, nextId, everIds, deleted, vcall, conns>>

routes_delete_book(p, book_id) ==
    /\ req[p].pc = "idle"
    /\ req' = [req EXCEPT ![p] =
                  Call(NewReq("DELETE", book_id, FALSE, FALSE, EmptyDict), "delete_book", "get")]
    /\ UNCHANGED <<table, nextId, everIds, deleted, vcall, conns>>

---------------------------------------------------------------------------
(* books/repository.py: one action per store round trip of each function,  *)
(* with the route's answer folded into the function's last round trip.     *)

\* Mutant: the rows in descending order of id.
list_books_Descending(p) ==
    /\ req[p].pc = "select" /\ req[p].repo = "list_books"
    /\ LET asc == MapBookToDict(OrderById(table, 1))
       IN  req' = [req EXCEPT ![p] =
                      Answer(@, 200, [i \in 1 .. Len(asc) |-> asc[Len(asc) + 1 - i]])]
    /\ UNCHANGED <<table, nextId, everIds, deleted, vcall, admitted, conns>>

list_books(p) ==
    /\ req[p].pc = "select" /\ req[p].repo = "list_books"
    /\ req' = [req EXCEPT ![p] =
                  Answer(@, 200, MapBookToDict(OrderById(table, 1)))]
    /\ UNCHANGED <<table, nextId, everIds, deleted, vcall, admitted, conns>>

get_book(p) ==
    /\ req[p].pc = "get" /\ req[p].repo = "get_book"
    /\ LET book == session_get(table, req[p].id)
       IN  req' = [req EXCEPT ![p] =
                      IF book = <<>> THEN Abort(@, 404)
                      ELSE Answer(@, 200, <<_book_to_dict(book[1])>>)]
    /\ UNCHANGED <<table, nextId, everIds, deleted, vcall, admitted, conns>>

\* session.add(book); session.commit(): the INSERT draws the next id.  The
\* sequence is not rolled back by a failed INSERT; a statement that fails
\* before it is executed has not drawn from it.
create_book_commit(p) ==
    /\ req[p].pc = "commit" /\ req[p].repo = "create_book"
    /\ LET e == InsertError(table, req[p].data)
           id == NextVal(table, nextId)
       IN  IF e = ""
           THEN /\ table' = InsertRow(table, id, req[p].data)
                /\ nextId' = nextId + 1
                /\ everIds' = everIds \cup {id}
                /\ req' = [req EXCEPT ![p].pc = "refresh",
                                      ![p].book = <<Book(id, req[p].data)>>]
           ELSE /\ req' = [req EXCEPT ![p] = Raise(@, e)]
                /\ \/ nextId' = nextId + 1
                   \/ e = "DataError" /\ nextId' = nextId
                /\ UNCHANGED <<table, everIds>>
    /\ UNCHANGED <<deleted, vcall, admitted, conns>>

\* session.refresh(book); return _book_to_dict(book) -> 201
create_book_refresh(p) ==
    /\ req[p].pc = "refresh" /\ req[p].repo = "create_book"
    /\ LET id == req[p].book[1].id
           e == RefreshError(table, id)
       IN  req' = [req EXCEPT ![p] =
                      IF e # "" THEN Raise(@, e)
                      ELSE Answer(@, 201, <<_book_to_dict(table[id])>>)]
    /\ UNCHANGED <<table, nextId, everIds, deleted, vcall, admitted, conns>>

\* Mutant: replace_book inserts the row when the id is absent (an upsert).
replace_book_get_Upsert(p) ==
    /\ req[p].pc = "get" /\ req[p].repo = "replace_book"
    /\ LET book == session_get(table, req[p].id)
       IN  IF book = <<>>
           THEN /\ table' = InsertRow(table, req[p].id, req[p].data)
                /\ req' = [req EXCEPT ![p] =
                               Answer(@, 200, <<_book_to_dict(Book(req[p].id, req[p].data))>>)]
           ELSE /\ req' = [req EXCEPT ![p].pc = "commit", ![p].book = book]
                /\ UNCHANGED table
    /\ UNCHANGED <<nextId, everIds, deleted, vcall, admitted, conns>>

\* book = session.get(Book, book_id); if book is None: return None -> 404
replace_book_get(p) ==
    /\ req[p].pc = "get" /\ req[p].repo = "replace_book"
    /\ LET book == session_get(table, req[p].id)
       IN  req' = [req EXCEPT ![p] =
                      IF book = <<>> THEN Abort(@, 404)
                      ELSE [@ EXCEPT !.pc = "commit", !.book = book]]
    /\ UNCHANGED <<table, nextId, everIds, deleted, vcall, admitted, conns>>

\* Mutant: replace_book without the assignment book.year = data["year"].
replace_book_commit_SkipsYear(p) ==
    /\ req[p].pc = "commit" /\ req[p].repo = "replace_book"
    /\ LET book == req[p].book[1]
           vals == [k \in ALLOWED_FIELDS \ {"year"} |-> req[p].data[k]]
           e == UpdateError(table, book, vals)
       IN  IF e = ""
           THEN /\ table' = UpdateRow(table, book, vals)
                /\ req' = [req EXCEPT ![p].pc = "refresh"]
           ELSE /\ req' = [req EXCEPT ![p] = Raise(@, e)]
                /\ UNCHANGED table
    /\ UNCHANGED <<nextId, everIds, deleted, vcall, admitted, conns>>

\* book.title = ...; book.author = ...; book.year = ...; book.isbn = ...;
\* session.commit()
replace_book_commit(p) ==
    /\ req[p].pc = "commit" /\ req[p].repo = "replace_book"
    /\ LET book == req[p].book[1]
           vals == [k \in ALLOWED_FIELDS |-> req[p].data[k]]
           e == UpdateError(table, book, vals)
       IN  IF e = ""
           THEN /\ table' = UpdateRow(table, book, vals)
                /\ req' = [req EXCEPT ![p].pc = "refresh"]
           ELSE /\ req' = [req EXCEPT ![p] = Raise(@, e)]
                /\ UNCHANGED table
    /\ UNCHANGED <<nextId, everIds, deleted, vcall, admitted, conns>>

replace_book_refresh(p) ==
    /\ req[p].pc = "refresh" /\ req[p].repo = "replace_book"
    /\ LET id == req[p].book[1].id
           e == RefreshError(table, id)
       IN  req' = [req EXCEPT ![p] =
                      IF e # "" THEN Raise(@, e)
                      ELSE Answer(@, 200, <<_book_to_dict(table[id])>>)]
    /\ UNCHANGED <<table, nextId, everIds, deleted, vcall, admitted, conns>>

\* if not fields: return None; book = session.get(Book, book_id);
\* if book is None: return None -> 404
update_book_get(p) ==
    /\ req[p].pc = "get" /\ req[p].repo = "update_book"
    /\ LET book == session_get(table, req[p].id)
       IN  req' = [req EXCEPT ![p] =
                      IF DOMAIN req[p].data = {} THEN Abort(@, 404)
                      ELSE IF book = <<>> THEN Abort(@, 404)
                      ELSE [@ EXCEPT !.pc = "commit", !.book = book]]
    /\ UNCHANGED <<table, nextId, everIds, deleted, vcall, admitted, conns>>

\* for key, value in fields.items(): setattr(book, key, value);
\* session.commit()
update_book_commit(p) ==
    /\ req[p].pc = "commit" /\ req[p].repo = "update_book"
    /\ LET book == req[p].book[1]
           e == UpdateError(table, book, req[p].data)
       IN  IF e = ""
           THEN /\ table' = UpdateRow(table, book, req[p].data)
                /\ req' = [req EXCEPT ![p].pc = "refresh"]
           ELSE /\ req' = [req EXCEPT ![p] = Raise(@, e)]
                /\ UNCHANGED table
    /\ UNCHANGED <<nextId, everIds, deleted, vcall, admitted, conns>>

update_book_refresh(p) ==
    /\ req[p].pc = "refresh" /\ req[p].repo = "update_book"
    /\ LET id == req[p].book[1].id
           e == RefreshError(table, id)
       IN  req' = [req EXCEPT ![p] =
                      IF e # "" THEN Raise(@, e)
                      ELSE Answer(@, 200, <<_book_to_dict(table[id])>>)]
    /\ UNCHANGED <<table, nextId, everIds, deleted, vcall, admitted, conns>>

\* book = session.get(Book, book_id); if book is None: return False -> 404
delete_book_get(p) ==
    /\ req[p].pc = "get" /\ req[p].repo = "delete_book"
    /\ LET book == session_get(table, req[p].id)
       IN  req' = [req EXCEPT ![p] =
                      IF book = <<>> THEN Abort(@, 404)
                      ELSE [@ EXCEPT !.pc = "commit", !.book = book]]
    /\ UNCHANGED <<table, nextId, everIds, deleted, vcall, admitted, conns>>

\* session.delete(book); session.commit(); return True -> 204
delete_book_commit(p) ==
    /\ req[p].pc = "commit" /\ req[p].repo = "delete_book"
    /\ table' = DeleteRow(table, req[p].book[1])
    /\ req' = [req EXCEPT ![p] = Answer(@, 204, <<>>)]
    /\ UNCHANGED <<nextId, everIds, deleted, vcall, admitted, conns>>

\* The answer reaches the client and the worker is free again.
Return(p) ==
    /\ req[p].pc = "done"
    /\ deleted' = IF req[p].method = "DELETE" /\ req[p].status = 204
                  THEN deleted \cup {req[p].id} ELSE deleted
    /\ req' = [req EXCEPT ![p] = IdleReq]
    /\ UNCHANGED <<table, nextId, everIds, vcall, admitted, conns>>

\* The client of an answered GET /books or GET /books/<id> sends the same
\* request again straight away: the route runs again from its start.
Repeat(p) ==
    /\ req[p].pc = "done" /\ req[p].method \in {"LIST", "GET"}
    /\ req[p].prev = <<>>
    /\ req' = [req EXCEPT ![p] =
                  [Call(NewReq(req[p].method, req[p].id, FALSE, FALSE, EmptyDict),
                        req[p].repo,
                        IF req[p].method = "LIST" THEN "select" ELSE "get")
                   EXCEPT !.prev = <<[status |-> req[p].status, body |-> req[p].body]>>]]
    /\ UNCHANGED <<table, nextId, everIds, deleted, vcall, admitted, conns>>

\* Every round trip a worker can make for the request it holds.
Step(p) ==
    \/ list_books(p)
    \/ get_book(p)
    \/ create_book_commit(p)
    \/ create_book_refresh(p)
    \/ replace_book_get(p)
    \/ replace_book_commit(p)
    \/ replace_book_refresh(p)
    \/ update_book_get(p)
    \/ update_book_commit(p)
    \/ update_book_refresh(p)
    \/ delete_book_get(p)
    \/ delete_book_commit(p)
    \/ Return(p)

---------------------------------------------------------------------------
(* Request inputs.                                                         *)

T1 == JStr(1, 5)
T2 == JStr(2, 5)
A1 == JStr(3, 6)
I1 == JStr(5, 13)
I2 == JStr(6, 13)
Y1 == JInt(2001)
Y2 == JInt(2002)

\* Values of the right JSON type that fit the column.
GoodValues(k) ==
    CASE k = "title" -> {T1, T2}
      [] k = "author" -> {A1}
      [] k = "year" -> {Y1, Y2}
      [] k = "isbn" -> {I1, I2}

\* Values of the wrong JSON type, or too large for the column: an integer
\* title, a title of 256 characters, a null author, a boolean year, a
\* numeric-string year, a fractional year, a year of 11 digits, an isbn of 33
\* characters, an integer isbn.
BadValues(k) ==
    CASE k = "title" -> {JInt(7), JStr(9, TitleMaxLen + 1)}
      [] k = "author" -> {JNull}
      [] k = "year" -> {JBool(1), JStr(8, 4), JFloat(1), JBigInt(1, 11)}
      [] k = "isbn" -> {JStr(7, IsbnMaxLen + 1), JInt(5)}

\* dict d with key k set to v.
SetKey(d, k, v) == [x \in DOMAIN d \cup {k} |-> IF x = k THEN v ELSE d[x]]

\* Every dict over a subset of the four fields with good values.
TypedDicts ==
    UNION {{d \in [S -> UNION {GoodValues(k) : k \in ALLOWED_FIELDS}] :
               \A k \in S : d[k] \in GoodValues(k)} : S \in SUBSET ALLOWED_FIELDS}

FullDict == [k \in ALLOWED_FIELDS |->
                CASE k = "title" -> T1 [] k = "author" -> A1
                  [] k = "year" -> Y1 [] k = "isbn" -> I2]

DefectBases == {FullDict, [k \in {"year"} |-> Y2]}

\* A base dict with one field given a bad value, or with the key id added.
DefectDicts ==
    {SetKey(b, k, v) : <<b, k, v>> \in
        {x \in DefectBases \X ALLOWED_FIELDS \X
                 UNION {BadValues(k) : k \in ALLOWED_FIELDS} :
            x[3] \in BadValues(x[2])}}
    \cup {SetKey(b, "id", JInt(1)) : b \in DefectBases}

\* <<is_json, is_dict, data>> of the requests the sequential server is sent.
SeqBodies ==
    {<<TRUE, TRUE, d>> : d \in TypedDicts \cup DefectDicts}
    \cup {<<TRUE, FALSE, EmptyDict>>, <<FALSE, FALSE, EmptyDict>>,
          <<FALSE, TRUE, FullDict>>,
          <<FALSE, TRUE, SetKey(FullDict, "id", JInt(1))>>}

\* The request is admitted as number n.
Admit(n) == n <= MaxAdmitted /\ admitted' = n

\* A new request arrives at worker p with a body from Bodies; n is the
\* number of requests admitted once it is in.
Arrive(p, Bodies, n) ==
    \/ routes_list_books(p) /\ Admit(n)
    \/ (\E id \in Ids : routes_get_book(p, id)) /\ Admit(n)
    \/ (\E b \in Bodies : routes_create_book(p, b[1], b[2], b[3])) /\ Admit(n)
    \/ (\E id \in Ids, b \in Bodies :
            routes_replace_book(p, id, b[1], b[2], b[3])) /\ Admit(n)
    \/ (\E id \in Ids, b \in Bodies :
            routes_update_book(p, id, b[1], b[2], b[3])) /\ Admit(n)
    \/ (\E id \in Ids : routes_delete_book(p, id)) /\ Admit(n)

\* One worker: requests are handled one after another (and not counted).
Next == Arrive(1, SeqBodies, admitted) \/ Step(1) \/ Repeat(1)

Spec == Init /\ [][Next]_vars

---------------------------------------------------------------------------
(* _validate_fields on its own, over every dict with keys among the four   *)
(* fields and id and values of every JSON type.                            *)

JsonPool == {JStr(1, 5), JInt(2001), JBool(1), JNull, JFloat(1)}

RichDicts == UNION {[S -> JsonPool] : S \in SUBSET (ALLOWED_FIELDS \cup {"id"})}

call_validate_fields(data, required) ==
    /\ ~vcall.called
    /\ vcall' = [called |-> TRUE, data |-> data, required |-> required,
                 code |-> _validate_fields(data, required)]
    /\ UNCHANGED <<table, nextId, req, everIds, deleted, admitted, conns>>

ValidateNext == \E data \in RichDicts, required \in BOOLEAN :
                    call_validate_fields(data, required)

SpecValidate == Init /\ [][ValidateNext]_vars

---------------------------------------------------------------------------
(* Several workers: the round trips of different requests interleave.      *)

ConcDicts ==
    {FullDict,
     [FullDict EXCEPT !["isbn"] = I1],
     [FullDict EXCEPT !["isbn"] = I1, !["year"] = Y2],
     [FullDict EXCEPT !["isbn"] = I1, !["title"] = T2],
     [k \in {"year"} |-> Y2],
     [k \in {"isbn"} |-> I2]}

ConcBodies == {<<TRUE, TRUE, d>> : d \in ConcDicts}

ConcNext ==
    \E p \in Procs :
        \/ Arrive(p, ConcBodies, admitted + 1)
        \/ Step(p)

SpecConc == Init /\ [][ConcNext]_vars

---------------------------------------------------------------------------
(* app.py: GET /health, with db.get_connection.                            *)

\* How the probe goes: psycopg2.connect raises; connect returns and
\* cur.execute("SELECT 1") raises; the SELECT succeeds and the commit at the
\* end of the with block raises; all of it succeeds.
ProbeOutcomes == {"connect fails", "execute fails", "commit fails", "ok"}

\* get_connection() returned a connection object.
Connected(probe) == probe # "connect fails"

\* Mutant: the probe outside any try block; its exception leaves the route.
health_NoExcept(p) ==
    /\ req[p].pc = "idle"
    /\ \E probe \in ProbeOutcomes, finalized \in BOOLEAN :
           LET r == [NewReq("HEALTH", 0, FALSE, FALSE, EmptyDict) EXCEPT !.probe = probe]
               held == Connected(probe) /\ ~finalized
           IN  /\ held => conns < MaxConns
               /\ conns' = IF held THEN conns + 1 ELSE conns
               /\ req' = [req EXCEPT ![p] =
                              IF probe # "ok" THEN Raise(r, "OperationalError")
                              ELSE Answer(r, 200, <<[status |-> "ok", database |-> "ok"]>>)]
    /\ UNCHANGED <<table, nextId, everIds, deleted, vcall>>

\* try: with get_connection() as conn: with conn.cursor() as cur:
\* cur.execute("SELECT 1") ... except Exception: db_status = "error";
\* return jsonify({"status": "ok", "database": db_status}).
\* The with block of a psycopg2 connection ends its transaction and does not
\* close it, and health never calls conn.close(): the connection is closed
\* when the interpreter finalizes the object, which reference counting does
\* as health returns and a tracing collector does at some later collection.
health(p) ==
    /\ req[p].pc = "idle"
    /\ \E probe \in ProbeOutcomes, finalized \in BOOLEAN :
           LET r == [NewReq("HEALTH", 0, FALSE, FALSE, EmptyDict) EXCEPT !.probe = probe]
               held == Connected(probe) /\ ~finalized
               db_status == IF probe = "ok" THEN "ok" ELSE "error"
           IN  /\ held => conns < MaxConns
               /\ conns' = IF held THEN conns + 1 ELSE conns
               /\ req' = [req EXCEPT ![p] =
                              Answer(r, 200, <<[status |-> "ok", database |-> db_status]>>)]
    /\ UNCHANGED <<table, nextId, everIds, deleted, vcall>>

\* A collection finalizes a connection that health left behind.
conn_finalize ==
    /\ conns > 0
    /\ conns' = conns - 1
    /\ UNCHANGED <<table, nextId, req, everIds, deleted, vcall, admitted>>

\* One worker serving /health beside the book routes.
HealthNext ==
    \/ health(1) /\ Admit(admitted)
    \/ conn_finalize
    \/ Arrive(1, ConcBodies, admitted)
    \/ Step(1)

SpecHealth == Init /\ [][HealthNext]_vars

---------------------------------------------------------------------------
(* What the specification calls a valid field set and a malformed request. *)

\* year is a JSON integer; title, author and isbn are JSON strings.
RightType(k, v) == IF k = "year" THEN v.ty = "int" ELSE v.ty = "str"

\* The acceptance condition the specification gives for validate(p, required).
SpecAccepts(data, required) ==
    /\ DOMAIN data \subseteq ALLOWED_FIELDS
    /\ required => ALLOWED_FIELDS \subseteq DOMAIN data
    /\ \A k \in DOMAIN data \cap ALLOWED_FIELDS : RightType(k, data[k])

\* A POST, PUT or PATCH that is malformed: wrong content type, body not an
\* object, unknown field, missing required field, wrong primitive type, or
\* empty PATCH payload.
Malformed(r) ==
    /\ r.method \in {"POST", "PUT", "PATCH"}
    /\ \/ ~r.is_json
       \/ ~r.is_dict
       \/ ~SpecAccepts(r.data, r.method # "PATCH")
       \/ r.method = "PATCH" /\ DOMAIN r.data = {}

\* A write request with a valid payload.
WellFormed(r) == r.method \in {"POST", "PUT", "PATCH"} /\ ~Malformed(r)

\* Every value of the dict fits its column.
FitsColumns(data) == \A k \in DOMAIN data : ColumnOk(k, data[k])

Isbns(t) == {t[j].isbn : j \in DOMAIN t}

\* The answer a GET /books/<id> gets from table t: <<status, body>>.
GetAnswer(t, id) ==
    IF session_get(t, id) = <<>> THEN <<404, <<>>>>
    ELSE <<200, <<_book_to_dict(session_get(t, id)[1])>>>>

\* The dict of row id with the four fields of data.
DictOf(id, data) ==
    [id |-> id, title |-> data["title"], author |-> data["author"],
     year |-> data["year"], isbn |-> data["isbn"]]

Done(p) == req[p].pc = "done"

---------------------------------------------------------------------------
(* Claims.                                                                 *)

\* C1: _validate_fields(p, required) succeeds if and only if every key of p
\* is one of the four fields, all four are present when required, year is
\* an integer when present and title, author, isbn are strings when
\* present; otherwise it fails with 400.
C1_ValidateIffSpecAccepts ==
    vcall.called =>
        /\ vcall.code \in {0, 400}
        /\ vcall.code = 0 <=> SpecAccepts(vcall.data, vcall.required)

\* C1, as the code has it: the same with a boolean year accepted too.
C1_ValidateIffUpToBool ==
    vcall.called =>
        /\ vcall.code \in {0, 400}
        /\ vcall.code = 0 <=>
              \/ SpecAccepts(vcall.data, vcall.required)
              \/ /\ "year" \in DOMAIN vcall.data
                 /\ vcall.data["year"].ty = "bool"
                 /\ SpecAccepts(SetKey(vcall.data, "year", Y1), vcall.required)

\* C2: a malformed POST, PUT or PATCH is rejected before any store access:
\* no repository function is called, it is answered 400 or 415, and the
\* table is as it was when the request arrived.
C2_MalformedNeverReachesStore ==
    \A p \in Procs :
        Malformed(req[p]) =>
            /\ req[p].repo = ""
            /\ Done(p) /\ req[p].status \in {400, 415}
            /\ table = req[p].pre

\* The only defect of the request is a boolean where year wants an integer.
OnlyBoolYear(r) ==
    /\ "year" \in DOMAIN r.data
    /\ r.data["year"].ty = "bool"
    /\ ~Malformed([r EXCEPT !.data = SetKey(r.data, "year", Y1)])

\* C2 for every malformed request but one whose only defect is a boolean year.
C2_MalformedUpToBool ==
    \A p \in Procs :
        (Malformed(req[p]) /\ ~OnlyBoolYear(req[p])) =>
            /\ req[p].repo = ""
            /\ Done(p) /\ req[p].status \in {400, 415}
            /\ table = req[p].pre

C4_ReplaceOverwrites ==
    \A p \in Procs :
        (/\ Done(p) /\ req[p].method = "PUT" /\ WellFormed(req[p])
         /\ req[p].status = 200) =>
            /\ req[p].id \in DOMAIN req[p].pre
            /\ req[p].body = <<DictOf(req[p].id, req[p].data)>>
            /\ GetAnswer(table, req[p].id) = <<200, req[p].body>>
            /\ DOMAIN table = DOMAIN req[p].pre
            /\ \A j \in DOMAIN table \ {req[p].id} : table[j] = req[p].pre[j]

\* A PUT answered 200 that changed title and year beside another row.
C4_Witness ==
    \E p \in Procs :
        /\ Done(p) /\ req[p].method = "PUT" /\ req[p].status = 200
        /\ WellFormed(req[p])
        /\ Cardinality(DOMAIN table) = 2
        /\ \A k \in {"title", "year"} :
               ColumnValues(req[p].pre[req[p].id])[k] # req[p].data[k]

\* C5: update merges.  After a PATCH of a valid non-empty partial field set
\* answers 200, the row has the value sent for each field named and its
\* former value for every other field and the id, and every other row is
\* as it was.
C5_UpdateMerges ==
    \A p \in Procs :
        (/\ Done(p) /\ req[p].method = "PATCH" /\ WellFormed(req[p])
         /\ req[p].status = 200) =>
            /\ req[p].id \in DOMAIN req[p].pre
            /\ Len(req[p].body) = 1
            /\ req[p].body[1].id = req[p].id
            /\ GetAnswer(table, req[p].id) = <<200, req[p].body>>
            /\ \A k \in ALLOWED_FIELDS :
                   ColumnValues(req[p].body[1])[k] =
                       IF k \in DOMAIN req[p].data THEN req[p].data[k]
                       ELSE ColumnValues(req[p].pre[req[p].id])[k]
            /\ DOMAIN table = DOMAIN req[p].pre
            /\ \A j \in DOMAIN table \ {req[p].id} : table[j] = req[p].pre[j]

\* A PATCH of one field answered 200 that changed it, beside another row.
C5_Witness ==
    \E p \in Procs :
        /\ Done(p) /\ req[p].method = "PATCH" /\ req[p].status = 200
        /\ DOMAIN req[p].data = {"year"}
        /\ req[p].pre[req[p].id].year # req[p].data["year"]
        /\ Cardinality(DOMAIN table) = 2

\* C6: delete is terminal.  Once a DELETE of an id has answered 204 the row
\* stays absent, and every later GET or DELETE of that id answers 404.
C6_DeleteIsTerminal ==
    /\ \A id \in deleted : id \notin DOMAIN table
    /\ \A p \in Procs :
           (Done(p) /\ req[p].afterDel /\ req[p].method \in {"GET", "DELETE"}) =>
               req[p].status = 404

\* A DELETE answered 404 for an id deleted earlier, after a later Create.
C6_Witness ==
    \E p \in Procs :
        /\ Done(p) /\ req[p].afterDel /\ req[p].method = "DELETE"
        /\ req[p].status = 404
        /\ table # EmptyTable

\* C7: for an id not in the table, GET, PUT of a valid field set, PATCH of a
\* valid non-empty field set and DELETE each answer 404 and leave the
\* table as it was; no row is created.
C7_AbsentIdIs404 ==
    \A p \in Procs :
        (/\ Done(p) /\ req[p].id \notin DOMAIN req[p].pre
         /\ \/ req[p].method \in {"GET", "DELETE"}
            \/ req[p].method \in {"PUT", "PATCH"} /\ WellFormed(req[p])) =>
            /\ req[p].status = 404
            /\ table = req[p].pre

\* A PUT of a valid field set to an absent id, answered while rows exist.
C7_Witness ==
    \E p \in Procs :
        /\ Done(p) /\ req[p].method = "PUT" /\ WellFormed(req[p])
        /\ req[p].id \notin DOMAIN req[p].pre
        /\ req[p].pre # EmptyTable

\* The isbn the request would give a row is held by another row of the table.
IsbnTaken(r) ==
    /\ WellFormed(r)
    /\ "isbn" \in DOMAIN r.data
    /\ r.method \in {"PUT", "PATCH"} => r.id \in DOMAIN r.pre
    /\ \E j \in DOMAIN r.pre :
           /\ r.pre[j].isbn = r.data["isbn"]
           /\ r.method = "POST" \/ j # r.id

\* C8: no two rows ever have the same isbn: a POST, PUT or PATCH whose isbn
\* is that of a different existing row does not succeed, it fails with a
\* store error, and the table is as it was.
C8_IsbnUnique ==
    /\ \A i, j \in DOMAIN table : table[i].isbn = table[j].isbn => i = j
    /\ \A p \in Procs :
           (Done(p) /\ IsbnTaken(req[p])) =>
               /\ req[p].status \notin {200, 201}
               /\ req[p].err \in {"IntegrityError", "DataError"}
               /\ table = req[p].pre

\* A POST and a PATCH refused by the unique constraint.
C8_Witness ==
    \E p \in Procs :
        /\ Done(p) /\ IsbnTaken(req[p]) /\ req[p].err = "IntegrityError"
        /\ req[p].method = "PATCH"

\* C9: a write with a valid payload that violates isbn uniqueness is
\* answered with a client error (4xx), never with the generic 500.
C9_DuplicateIsbnIsClientError ==
    \A p \in Procs :
        (Done(p) /\ WellFormed(req[p]) /\ req[p].err = "IntegrityError") =>
            req[p].status \in 400 .. 499

\* The id of the row a Create has inserted, 0 when it has inserted none.
CreatedId(r) ==
    IF r.repo = "create_book" /\ r.pc = "refresh" THEN r.book[1].id
    ELSE IF r.repo = "create_book" /\ r.status = 201 THEN r.body[1].id
    ELSE 0

\* C10: ids are unique and never reused.  The id of a row that appears is
\* one no row has ever had, deleted rows included, also when Creates run
\* concurrently; the id a Create answers with is that of the row it
\* inserted, and two Creates never hold the same id.
C10_IdsNeverReused ==
    /\ [](/\ DOMAIN table \subseteq everIds
          /\ \A j \in everIds : j < nextId
          /\ \A p \in Procs : CreatedId(req[p]) # 0 => CreatedId(req[p]) \in everIds
          /\ \A p, q \in Procs :
                 (p # q /\ CreatedId(req[p]) # 0) =>
                     CreatedId(req[p]) # CreatedId(req[q]))
    /\ [][\A j \in DOMAIN table' \ DOMAIN table : j \notin everIds]_vars

\* A Create answered 201 with id 2 after the row with id 1 was deleted.
C10_Witness ==
    \E p \in Procs :
        /\ Done(p) /\ req[p].status = 201 /\ CreatedId(req[p]) = 2
        /\ deleted = {1}

\* The four writable columns, as the specification lists them.
WritableColumns == {"title", "author", "year", "isbn"}

\* C11: the caller cannot set a row's id and it never changes.  A POST, PUT
\* or PATCH whose JSON object holds the key id, or any key outside title,
\* author, year, isbn, is answered 400 with no repository call and the table
\* as it was; the field set a repository function is given, and so the
\* attributes it assigns, lie within the four columns; every row keeps the
\* id it is stored under.
C11_IdNotWritable ==
    /\ \A p \in Procs :
           (/\ req[p].method \in {"POST", "PUT", "PATCH"}
            /\ req[p].is_json /\ req[p].is_dict
            /\ ~(DOMAIN req[p].data \subseteq WritableColumns)) =>
               /\ Done(p) /\ req[p].status = 400
               /\ req[p].repo = ""
               /\ table = req[p].pre
    /\ \A p \in Procs :
           req[p].repo \in {"create_book", "replace_book", "update_book"} =>
               /\ DOMAIN req[p].data \subseteq WritableColumns
               /\ req[p].book # <<>> =>
                      ChangedAttrs(req[p].book[1], req[p].data) \subseteq WritableColumns
    /\ \A j \in DOMAIN table : table[j].id = j
    /\ \A p \in Procs :
           (Done(p) /\ req[p].method \in {"PUT", "PATCH"} /\ req[p].status = 200) =>
               req[p].body[1].id = req[p].id

\* A PATCH of {year, id} to an existing row, answered 400.
C11_Witness ==
    \E p \in Procs :
        /\ Done(p) /\ req[p].method = "PATCH" /\ req[p].status = 400
        /\ DOMAIN req[p].data = {"year", "id"}
        /\ req[p].id \in DOMAIN table

\* C12: a PATCH whose body is the empty object is answered 400, for an id
\* in the table as for one that is not; the route never calls
\* repository.update_book with an empty field set, and the table is as it
\* was.
C12_EmptyPatchIs400 ==
    /\ \A p \in Procs :
           (/\ req[p].method = "PATCH" /\ req[p].is_json /\ req[p].is_dict
            /\ DOMAIN req[p].data = {}) =>
               /\ Done(p) /\ req[p].status = 400
               /\ req[p].repo = ""
               /\ table = req[p].pre
    /\ \A p \in Procs : req[p].repo = "update_book" => DOMAIN req[p].data # {}

\* A PATCH with the empty object to a row of the table, answered.
C12_Witness ==
    \E p \in Procs :
        /\ Done(p) /\ req[p].method = "PATCH" /\ req[p].is_json /\ req[p].is_dict
        /\ DOMAIN req[p].data = {}
        /\ req[p].id \in DOMAIN table

\* C13: List answers 200 with exactly the rows of the table, each once, in
\* strictly ascending order of id, whatever Creates, Replaces, Updates and
\* Deletes came before; a List or a Get sent twice with no write in between
\* gets the same answer both times, and neither changes the table.
C13_ListOrderedAndRepeatable ==
    /\ \A p \in Procs :
           (Done(p) /\ req[p].method = "LIST") =>
               /\ req[p].status = 200
               /\ Len(req[p].body) = Cardinality(DOMAIN table)
               /\ {req[p].body[i] : i \in 1 .. Len(req[p].body)} =
                      {_book_to_dict(table[j]) : j \in DOMAIN table}
               /\ \A i \in 1 .. Len(req[p].body) - 1 :
                      req[p].body[i].id < req[p].body[i + 1].id
    /\ \A p \in Procs :
           (Done(p) /\ req[p].method \in {"LIST", "GET"}) =>
               /\ table = req[p].pre
               /\ req[p].prev # <<>> =>
                      req[p].prev[1] = [status |-> req[p].status, body |-> req[p].body]

\* A List of two rows, answered for the second time in a row.
C13_Witness ==
    \E p \in Procs :
        /\ Done(p) /\ req[p].method = "LIST" /\ req[p].prev # <<>>
        /\ Len(req[p].body) = 2
        /\ req[p].body[1].title # req[p].body[2].title

\* C14: for POST, PUT and PATCH the content type is checked first.  A
\* request whose content type is not JSON is answered 415 whatever its body
\* and its id; one with JSON content type whose body is not an object is
\* answered 400; in both cases no repository function is called and the
\* table is as it was.
C14_ContentTypeFirst ==
    \A p \in Procs :
        req[p].method \in {"POST", "PUT", "PATCH"} =>
            /\ ~req[p].is_json =>
                   /\ Done(p) /\ req[p].status = 415
                   /\ req[p].repo = "" /\ table = req[p].pre
            /\ (req[p].is_json /\ ~req[p].is_dict) =>
                   /\ Done(p) /\ req[p].status = 400
                   /\ req[p].repo = "" /\ table = req[p].pre

\* A PUT to a row of the table with a content type that is not JSON and a
\* body that field validation would refuse.
C14_Witness ==
    \E p \in Procs :
        /\ Done(p) /\ req[p].method = "PUT" /\ ~req[p].is_json
        /\ "id" \in DOMAIN req[p].data
        /\ req[p].id \in DOMAIN table

\* C15: GET /health always answers 200 with status ok, whatever the table
\* holds: when the probe succeeds the database field is ok, and when the
\* probe fails, at connect, at the SELECT or at the commit, the database
\* field is error and the answer is still 200.
C15_HealthAlways200 ==
    \A p \in Procs :
        req[p].method = "HEALTH" =>
            /\ Done(p) /\ req[p].status = 200
            /\ req[p].body =
                   <<[status |-> "ok",
                      database |-> IF req[p].probe = "ok" THEN "ok" ELSE "error"]>>
            /\ table = req[p].pre

\* A /health whose SELECT failed, answered while the table holds rows.
C15_Witness ==
    \E p \in Procs :
        /\ Done(p) /\ req[p].method = "HEALTH" /\ req[p].probe = "execute fails"
        /\ table # EmptyTable

\* The number of ORM sessions open.
OpenSessions == Cardinality({p \in Procs : req[p].session})

\* Every request the workers hold has been answered.
AllCompleted == \A p \in Procs : req[p].pc \in {"idle", "done"}

\* C17: every session or connection an operation opens is released before
\* the operation returns, on every exit path: once the requests are
\* completed, /health probes and failing writes among them, no session and
\* no connection is still open.
C17_NothingHeldOpen ==
    AllCompleted => (OpenSessions = 0 /\ conns = 0)

\* C17 for the ORM sessions alone: a request that has been answered, with
\* a row, an absence signal or a store error, holds no session.
C17_SessionsReleased ==
    /\ AllCompleted => OpenSessions = 0
    /\ \A p \in Procs : req[p].session <=> req[p].pc \in {"select", "get", "commit", "refresh"}

\* The request has found its row with session.get and has yet to commit.
BetweenGetAndCommit(r) ==
    r.pc = "commit" /\ r.repo \in {"replace_book", "update_book", "delete_book"}

\* The row stored under id, <<>> when there is none.
RowAt(t, id) == IF id \in DOMAIN t THEN <<t[id]>> ELSE <<>>

\* C16: each store operation takes effect as one atomic step under every
\* interleaving.  While a Replace, Update or Delete is between its
\* session.get and its commit, no other request's write to the same id
\* takes effect; so each of them ends as it would had the requests run one
\* after another: with the row it wrote, the absence signal or true/false,
\* and never with an error about a row that went away under it.
C16_OperationsAtomic ==
    /\ [](\A p \in Procs :
             (Done(p) /\ req[p].method \in {"PUT", "PATCH", "DELETE"}) =>
                 req[p].err \notin {"StaleDataError", "InvalidRequestError"})
    /\ [][\A p \in Procs :
             (BetweenGetAndCommit(req[p]) /\ req'[p] = req[p]) =>
                 RowAt(table', req[p].id) = RowAt(table, req[p].id)]_vars

\* Both requests are answered Replaces of the same row, each with 200.
BothReplaced(p, q) ==
    /\ p # q /\ Done(p) /\ Done(q)
    /\ req[p].method = "PUT" /\ req[q].method = "PUT"
    /\ req[p].id = req[q].id
    /\ req[p].status = 200 /\ req[q].status = 200

\* C18: when two Replaces of the same existing id run concurrently and both
\* succeed, the final row has the four fields of one payload entirely or
\* of the other entirely, never a mixture, and the row each request is
\* answered with has the fields that request sent.
C18_ConcurrentReplaceNoMixture ==
    \A p, q \in Procs :
        BothReplaced(p, q) =>
            /\ req[p].id \in DOMAIN table
            /\ \/ _book_to_dict(table[req[p].id]) = DictOf(req[p].id, req[p].data)
               \/ _book_to_dict(table[req[p].id]) = DictOf(req[q].id, req[q].data)
            /\ req[p].body = <<DictOf(req[p].id, req[p].data)>>

====
